---------------------------- MODULE Spec2Model ----------------------------
(***************************************************************************)
(* Model of insider_alert.py: the Form 4 resolution pipeline of main       *)
(* (search API with pagination, RSS fallback, index-page lookup), the      *)
(* transaction extractor parse_form4_xml, deduplication, the digest's      *)
(* ordering and the delivery step.                                         *)
(*                                                                         *)
(* Text is modelled as a tuple of one-character strings where the code     *)
(* changes or compares its case (ticker, owner name), as a plain string    *)
(* where the code only tests it for emptiness or equality.  A numeric      *)
(* field of a document is its raw text: absent/empty, not a number, or a   *)
(* number.  Money is in units of MIN_PURCHASE_USD / 2.                     *)
(***************************************************************************)
EXTENDS Integers, Sequences, FiniteSets, TLC

\* ------------------------------------------------------------- bounds
MaxTxns == 2      \* nonDerivativeTransaction elements of one document
MaxDocs == 3      \* XML documents resolved in one run
MaxHits == 2      \* hits on one page of search results
MaxEntries == 2   \* entries of the RSS feed

\* ---------------------------------------------------------- constants
\* MIN_PURCHASE_USD (default 250000), here in units of 125000 USD.
MIN_PURCHASE_USD == 2

\* ------------------------------------------------------------ text
UpperChar(c) ==
    CASE c = "a" -> "A"
      [] c = "b" -> "B"
      [] c = "j" -> "J"
      [] c = "d" -> "D"
      [] OTHER -> c

\* str.upper()
Upper(s) == [k \in DOMAIN s |-> UpperChar(s[k])]

\* The raw text of a numeric element.
Empty == [txt |-> "empty", val |-> 0]
NotANumber == [txt |-> "bad", val |-> 0]
Num(n) == [txt |-> "num", val |-> n]

\* float(s) raises ValueError
ValueError(s) == s.txt = "bad"

\* float(s) if s else 0
FloatOrZero(s) == IF s.txt = "empty" THEN 0 ELSE s.val

\* ------------------------------------------- parse_form4_xml: the lines
\* variant: no test of the transaction code
AnyCode(code) == TRUE

\* if code != "P": continue
IsPurchaseCode(code) == code = "P"

\* if acq_disp and acq_disp != "A": continue
AcquiredOrAbsent(acq_disp) == ~(acq_disp # "" /\ acq_disp # "A")

\* variant: no threshold test
NoThreshold(total_value) == TRUE

\* variant: a line right at the threshold is dropped
AboveThreshold(total_value) == total_value > MIN_PURCHASE_USD

\* if total_value >= MIN_PURCHASE_USD
ReachesThreshold(total_value) == total_value >= MIN_PURCHASE_USD

\* One iteration of the loop over root.findall(".//nonDerivativeTransaction"):
\* the purchases it appends (none or one).  The k-th line's date is k.
PurchaseOfLine(txn, k) ==
    IF ~IsPurchaseCode(txn.code) THEN <<>>
    ELSE IF ~AcquiredOrAbsent(txn.acq) THEN <<>>
    ELSE IF ValueError(txn.shares) \/ ValueError(txn.price) THEN <<>>
    ELSE LET shares == FloatOrZero(txn.shares)
             price == FloatOrZero(txn.price)
             total_value == shares * price
         IN  IF ReachesThreshold(total_value)
             THEN << [date |-> k, shares |-> shares, price |-> price,
                      total_value |-> total_value] >>
             ELSE <<>>

RECURSIVE CollectPurchases(_, _)
\* purchases after the loop has run over lines k..Len(txns)
CollectPurchases(txns, k) ==
    IF k > Len(txns) THEN <<>>
    ELSE PurchaseOfLine(txns[k], k) \o CollectPurchases(txns, k + 1)

RECURSIVE SumField(_, _)
\* sum(p[f] for p in purchases), f one of "total_value", "shares"
SumField(purchases, f) ==
    IF purchases = <<>> THEN 0
    ELSE Head(purchases)[f] + SumField(Tail(purchases), f)

\* ------------------------------------------- parse_form4_xml: the whole
\* ET.fromstring(content) succeeds
ParsesAsIs(content) == content.syntax = "ok"

\* ET.fromstring(re.sub(rb'\sxmlns[^"]*"[^"]*"', b'', content)) succeeds
ParsesAfterStrip(content) == content.syntax \in {"ok", "bad_ns"}

\* issuer_ticker.upper() if issuer_ticker else "N/A"
TickerOf(issuer_ticker) ==
    IF issuer_ticker # <<>> THEN Upper(issuer_ticker) ELSE <<"N", "/", "A">>

\* The record built from a parsed tree: <<>> is None, <<r>> is the dict r.
RecordOf(xml_url, root) ==
    IF root.issuer_name = "" THEN <<>>
    ELSE LET purchases == CollectPurchases(root.txns, 1) IN
         IF purchases = <<>> THEN <<>>
         ELSE << [issuer_name |-> root.issuer_name,
                  ticker |-> TickerOf(root.issuer_ticker),
                  owner_name |-> root.owner_name,
                  purchases |-> purchases,
                  total_invested |-> SumField(purchases, "total_value"),
                  total_shares |-> SumField(purchases, "shares"),
                  filing_url |-> xml_url] >>

\* The exception raised inside the try block, "none" when it runs through:
\* by SESSION.get, or by the second ET.fromstring after the first one's
\* ParseError was handled.
RaisedInTry(resp) ==
    IF resp.exc THEN "RequestException"
    ELSE IF resp.status_code # 200 THEN "none"
    ELSE IF ~ParsesAsIs(resp.content) /\ ~ParsesAfterStrip(resp.content)
         THEN "ParseError"
         ELSE "none"

\* variant: except requests.RequestException
ExceptRequestErrorsOnly(e) == e = "RequestException"

\* except Exception as e: return None
ExceptException(e) == e # "none"

\* an exception leaves parse_form4_xml
Escapes(resp) ==
    RaisedInTry(resp) # "none" /\ ~ExceptException(RaisedInTry(resp))

\* parse_form4_xml(xml_url) when SESSION.get(xml_url) answers resp and no
\* exception leaves it
parse_form4_xml(xml_url, resp) ==
    IF ExceptException(RaisedInTry(resp)) THEN <<>>
    ELSE IF resp.status_code # 200 THEN <<>>
    ELSE RecordOf(xml_url, resp.content)


\* ------------------------------------------------- main: deduplication
RECURSIVE DedupKeepLast(_, _, _)
\* variant: the last record of a key is the one kept
DedupKeepLast(ts, seen, k) ==
    IF k > Len(ts) THEN <<>>
    ELSE IF \E m \in (k + 1)..Len(ts) :
               <<ts[m].ticker, ts[m].owner_name>> = <<ts[k].ticker, ts[k].owner_name>>
         THEN DedupKeepLast(ts, seen, k + 1)
         ELSE <<ts[k]>> \o DedupKeepLast(ts, seen, k + 1)

RECURSIVE Dedup(_, _, _)
\* unique after the loop "for t in insider_purchases" has run over ts[k..],
\* entered with the set seen
Dedup(ts, seen, k) ==
    IF k > Len(ts) THEN <<>>
    ELSE LET key == <<ts[k].ticker, ts[k].owner_name>> IN
         IF key \notin seen
         THEN <<ts[k]>> \o Dedup(ts, seen \cup {key}, k + 1)
         ELSE Dedup(ts, seen, k + 1)

\* --------------------------------------- build_email_html: the ordering
RECURSIVE InsertTiesFirst(_, _)
\* variant: t goes before the elements of equal total (ties reversed)
InsertTiesFirst(sorted, t) ==
    IF sorted = <<>> THEN <<t>>
    ELSE IF Head(sorted).total_invested > t.total_invested
         THEN <<Head(sorted)>> \o InsertTiesFirst(Tail(sorted), t)
         ELSE <<t>> \o sorted

RECURSIVE InsertDesc(_, _)
\* t put into a list sorted by total_invested, descending, behind every
\* element that does not compare smaller (list.sort is stable, reverse=True
\* keeps the original order of equal keys)
InsertDesc(sorted, t) ==
    IF sorted = <<>> THEN <<t>>
    ELSE IF Head(sorted).total_invested >= t.total_invested
         THEN <<Head(sorted)>> \o InsertDesc(Tail(sorted), t)
         ELSE <<t>> \o sorted

RECURSIVE SortDesc(_, _)
\* trades.sort(key=lambda t: t["total_invested"], reverse=True), first k
SortDesc(ts, k) ==
    IF k = 0 THEN <<>> ELSE InsertDesc(SortDesc(ts, k - 1), ts[k])

\* ------------------------------------------------------------- state
VARIABLES
    pc,                \* where main is
    cred,              \* GMAIL_APP_PASS is non-empty
    offset,            \* fetch_form4_robust: offset
    total_count,       \* fetch_form4_robust: total_count of the current page
    pages,             \* page requests issued by fetch_form4_robust
    hits,              \* hits of the current page not yet looked at
    xml_urls,          \* the resolved document URLs (a URL is its number)
    rss_requested,     \* fetch_form4_filings_rss was called
    rss_filings,       \* RSS entries not yet looked at
    i,                 \* documents of xml_urls already handed to the parser
    docLog,            \* per document handed to the parser: what its fetch gave
    insider_purchases, \* the records appended by the loop over xml_urls
    unique,            \* the deduplicated list, in its order before the sort
    trades,            \* the list as build_email_html leaves it
    digest,            \* "none", "empty" or "table": what was rendered
    send_called,       \* send_email was entered
    smtp_attempted,    \* send_email got as far as the SMTP connection
    requested,         \* an HTTP request was issued
    slept,             \* time.sleep(REQUEST_DELAY) ran since the last request
    undelayed,         \* some request followed another with no sleep between
    doc,               \* parse_form4_xml alone: the response it is given
    result,            \* parse_form4_xml alone: what it returned
    returned           \* parse_form4_xml alone: it has returned

vars == <<pc, cred, offset, total_count, pages, hits, xml_urls, rss_requested,
          rss_filings, i, docLog, insider_purchases, unique, trades, digest,
          send_called, smtp_attempted, requested, slept, undelayed,
          doc, result, returned>>

parseVars == <<doc, result, returned>>
netVars == <<requested, slept, undelayed>>
searchVars == <<offset, total_count, pages, hits>>
mainTail == <<i, docLog, insider_purchases, unique, trades, digest,
              send_called, smtp_attempted>>

page_size == 50
OffsetCap == 500


\* ------------------------------------------------------------ inputs
\* What a document's transaction line can hold.
Codes == {"P", "S"}
AcqDisp == {"A", "D", ""}
SharesTexts == {NotANumber, Empty, Num(-2), Num(1), Num(2)}
PriceTexts == {NotANumber, Empty, Num(-1), Num(1)}
\* Every pair of share and price texts on the lines the code and direction
\* tests let through; on the other lines one pair worth the threshold, one
\* worth less and one that is not a number.
Lines ==
    [code : {"P"}, acq : {"A", ""}, shares : SharesTexts, price : PriceTexts]
    \cup [code : Codes, acq : AcqDisp, shares : {NotANumber, Num(1), Num(2)},
          price : {Num(1)}]

SeqsUpTo(S, n) == UNION {[1..m -> S] : m \in 0..n}

Tree(syntax, issuer_name, issuer_ticker, owner_name, txns) ==
    [syntax |-> syntax, issuer_name |-> issuer_name,
     issuer_ticker |-> issuer_ticker, owner_name |-> owner_name, txns |-> txns]

NoContent == Tree("garbage", "", <<>>, <<>>, <<>>)

\* SESSION.get raised
NetError == [exc |-> TRUE, status_code |-> 0, content |-> NoContent]
\* a non-200 answer
NotFound == [exc |-> FALSE, status_code |-> 404, content |-> NoContent]
Ok(content) == [exc |-> FALSE, status_code |-> 200, content |-> content]

Tickers == {<<>>, <<"a", "b">>, <<"A", "B">>}
Owners == {<<"j", "d">>, <<"J", "D">>}

\* The responses parse_form4_xml is checked on, alone.
ParseResponses ==
    {NetError, NotFound, Ok(NoContent)}
    \cup {Ok(Tree(h[1], h[2], <<"a", "b">>, <<"j", "d">>, txns)) :
             h \in {<<"ok", "Acme">>, <<"bad_ns", "Acme">>, <<"ok", "">>},
             txns \in SeqsUpTo(Lines, MaxTxns)}

\* The responses the documents of a run of main give: a failure, a filing
\* with no issuer or no line, or one purchase line worth 2 or 3 units.
MainLines == {[code |-> "P", acq |-> "A", shares |-> Num(n), price |-> Num(1)] :
                 n \in {2, 3}}
MainResponses ==
    {NetError, NotFound, Ok(NoContent),
     Ok(Tree("ok", "", <<>>, <<>>, <<>>)), Ok(Tree("ok", "Acme", <<>>, <<>>, <<>>))}
    \cup {Ok(Tree(sx, "Acme", tk, ow, <<ln>>)) :
             sx \in {"ok", "bad_ns"}, tk \in Tickers, ow \in Owners,
             ln \in MainLines}

\* total of a page of search results: hits.total (its value), 0 when
\* missing; "other" is a total that is neither a number nor a dict
IntTotal(n) == [type |-> "int", val |-> n]
OtherTotal == [type |-> "other", val |-> 0]
Totals == {IntTotal(0), IntTotal(100), IntTotal(100000), OtherTotal}

\* ---------------------------------------------------- network requests
\* SESSION.get(...) followed by time.sleep(REQUEST_DELAY): the sleep is the
\* statement after the get, inside the try, so a get that raises skips it.
Request(raised) ==
    /\ requested' = TRUE
    /\ undelayed' = (undelayed \/ (requested /\ ~slept))
    /\ slept' = ~raised

\* _find_xml_on_index_page(idx_url): <<>> is None, <<u>> the URL found.
\* answer: "neterr", "non200", "nolink" (no acceptable .xml link), "link"
IndexAnswers == {"neterr", "non200", "nolink", "link"}
FoundUrl(answer) ==
    IF answer = "link" THEN << Len(xml_urls) + 1 >> ELSE <<>>

\* ---------------------------------------------------------------- Init
InitParseVars ==
    /\ doc = NetError
    /\ result = <<>>
    /\ returned = FALSE

InitMainVars ==
    /\ pc = "search"
    /\ offset = 0
    /\ total_count = IntTotal(0)
    /\ pages = 0
    /\ hits = 0
    /\ xml_urls = <<>>
    /\ rss_requested = FALSE
    /\ rss_filings = 0
    /\ i = 0
    /\ docLog = <<>>
    /\ insider_purchases = <<>>
    /\ unique = <<>>
    /\ trades = <<>>
    /\ digest = "none"
    /\ send_called = FALSE
    /\ smtp_attempted = FALSE
    /\ requested = FALSE
    /\ slept = FALSE
    /\ undelayed = FALSE

Init ==
    /\ cred \in BOOLEAN
    /\ InitMainVars
    /\ InitParseVars

\* ------------------------------------------------- fetch_form4_robust
\* break: the loop is left after n page requests, offset being off
Break(n, off) ==
    /\ pc' = "search_done"
    /\ pages' = n
    /\ offset' = off
    /\ UNCHANGED <<total_count, hits>>

\* One pass of "while True" up to the loop over hits: the page request and
\* what is made of its answer.
SearchRequest ==
    /\ pc = "search"
    /\ \E answer \in {"neterr", "non200", "nonjson", "badshape", "page"} :
         /\ Request(answer = "neterr")
         /\ CASE answer \in {"neterr", "non200", "nonjson"} ->
                   \* except / status_code != 200 / resp.json() raised: break
                   Break(pages + 1, offset)
              [] answer = "badshape" ->
                   \* data.get("hits", {}).get("hits", []) on JSON that is not
                   \* an object of objects: AttributeError, caught nowhere
                   /\ pc' = "search_crashed"
                   /\ pages' = pages + 1
                   /\ UNCHANGED <<offset, total_count, hits>>
              [] answer = "page" ->
                   \E n \in 0..MaxHits, t \in Totals :
                      IF n = 0
                      THEN Break(pages + 1, offset)      \* if not hits: break
                      ELSE /\ pc' = "hits"
                           /\ hits' = n
                           /\ total_count' = t
                           /\ pages' = pages + 1
                           /\ offset' = offset
    /\ UNCHANGED <<cred, xml_urls, rss_requested, rss_filings, mainTail, parseVars>>

\* One iteration of "for hit in hits".
ResolveHit ==
    /\ pc = "hits"
    /\ hits > 0
    /\ hits' = hits - 1
    /\ \E has_acc_cik \in BOOLEAN :
         IF has_acc_cik
         THEN \E answer \in IndexAnswers :
                 /\ answer = "link" => Len(xml_urls) < MaxDocs
                 /\ Request(answer = "neterr")
                 /\ xml_urls' = xml_urls \o FoundUrl(answer)
         ELSE UNCHANGED <<xml_urls, netVars>>
    /\ UNCHANGED <<pc, cred, offset, total_count, pages, rss_requested,
                   rss_filings, mainTail, parseVars>>

\* variant: the loop ends on the reported total only
LoopEndsOnTotalOnly(off, total) == off >= total

\* if offset >= total_count or offset >= 500: break
LoopEnds(off, total) == off >= total \/ off >= OffsetCap

\* offset += page_size and the test that ends the loop
EndPage ==
    /\ pc = "hits"
    /\ hits = 0
    /\ IF total_count.type # "int"
       THEN \* offset >= total_count: TypeError, caught nowhere
            /\ pc' = "search_crashed"
            /\ offset' = offset + page_size
            /\ UNCHANGED <<total_count, hits, pages>>
       ELSE IF LoopEnds(offset + page_size, total_count.val)
            THEN Break(pages, offset + page_size)
            ELSE /\ pc' = "search"
                 /\ offset' = offset + page_size
                 /\ UNCHANGED <<total_count, hits, pages>>
    /\ UNCHANGED <<cred, xml_urls, rss_requested, rss_filings, mainTail,
                   netVars, parseVars>>


\* return xml_urls: the locals of fetch_form4_robust are gone, and main
\* tests "if not xml_urls"
ReturnXmlUrls ==
    /\ pc = "search_done"
    /\ pc' = IF xml_urls = <<>> THEN "rss" ELSE "parse"
    /\ offset' = 0
    /\ total_count' = IntTotal(0)
    /\ hits' = 0
    /\ pages' = 0
    /\ UNCHANGED <<cred, xml_urls, rss_requested, rss_filings, mainTail,
                   netVars, parseVars>>

\* ------------------------------------- fetch_form4_filings_rss, in main
\* The feed request; what is left of it is the number of entries returned.
RssRequest ==
    /\ pc = "rss"
    /\ rss_requested' = TRUE
    /\ pc' = "links"
    /\ \E answer \in {"neterr", "non200", "badxml", "feed"} :
         /\ Request(answer = "neterr")
         /\ IF answer = "feed"
            THEN rss_filings' \in 0..MaxEntries
            ELSE rss_filings' = 0     \* return filings / except Exception
    /\ UNCHANGED <<cred, searchVars, xml_urls, mainTail, parseVars>>

\* One iteration of "for f in rss_filings".
ResolveLink ==
    /\ pc = "links"
    /\ rss_filings > 0
    /\ rss_filings' = rss_filings - 1
    /\ \E has_link \in BOOLEAN :
         IF has_link
         THEN \E answer \in IndexAnswers :
                 /\ answer = "link" => Len(xml_urls) < MaxDocs
                 /\ Request(answer = "neterr")
                 /\ xml_urls' = xml_urls \o FoundUrl(answer)
         ELSE UNCHANGED <<xml_urls, netVars>>
    /\ UNCHANGED <<pc, cred, searchVars, rss_requested, mainTail, parseVars>>

\* The loop over rss_filings is over: main's second "if not xml_urls".
EndLinks ==
    /\ pc = "links"
    /\ rss_filings = 0
    /\ IF xml_urls = <<>>
       THEN \* build_email_html([], date_str)
            /\ digest' = "empty"
            /\ pc' = "deliver"
       ELSE /\ digest' = digest
            /\ pc' = "parse"
    /\ UNCHANGED <<cred, searchVars, xml_urls, rss_requested, rss_filings, i,
                   docLog, insider_purchases, unique, trades, send_called,
                   smtp_attempted, netVars, parseVars>>

\* ------------------------------------------------ main: the documents
\* What the fetch of a document gave, as main's log shows it.
FetchClass(resp) ==
    IF resp.exc THEN "neterr"
    ELSE IF resp.status_code # 200 THEN "non200"
    ELSE IF ~ParsesAsIs(resp.content) /\ ~ParsesAfterStrip(resp.content)
         THEN "unparsable"
         ELSE "parsed"

\* One iteration of "for i, url in enumerate(xml_urls)".
ParseDoc ==
    /\ pc = "parse"
    /\ i < Len(xml_urls)
    /\ \E resp \in MainResponses :
         /\ Request(resp.exc)
         /\ IF Escapes(resp)
            THEN /\ pc' = "parse_crashed"
                 /\ UNCHANGED <<i, docLog, insider_purchases>>
            ELSE /\ pc' = pc
                 /\ i' = i + 1
                 /\ insider_purchases' =
                       insider_purchases \o parse_form4_xml(xml_urls[i + 1], resp)
                 /\ docLog' = Append(docLog, FetchClass(resp))
    /\ UNCHANGED <<cred, searchVars, xml_urls, rss_requested, rss_filings,
                   unique, trades, digest, send_called, smtp_attempted, parseVars>>

\* After the loop: deduplicate, then build_email_html (which sorts).
BuildDigest ==
    /\ pc = "parse"
    /\ i = Len(xml_urls)
    /\ unique' = Dedup(insider_purchases, {}, 1)
    /\ trades' = SortDesc(unique', Len(unique'))
    /\ digest' = IF unique' = <<>> THEN "empty" ELSE "table"
    /\ pc' = "deliver"
    /\ UNCHANGED <<cred, searchVars, xml_urls, rss_requested, rss_filings, i,
                   docLog, insider_purchases, send_called, smtp_attempted,
                   netVars, parseVars>>

\* --------------------------------------------------------- send_email
\* variant: no test of GMAIL_APP_PASS
SendEmailUnchecked ==
    /\ pc = "deliver"
    /\ send_called' = TRUE
    /\ smtp_attempted' = TRUE
    /\ pc' \in {"done", "smtp_failed"}
    /\ UNCHANGED <<cred, searchVars, xml_urls, rss_requested, rss_filings, i,
                   docLog, insider_purchases, unique, trades, digest,
                   netVars, parseVars>>

SendEmail ==
    /\ pc = "deliver"
    /\ send_called' = TRUE
    /\ IF ~cred
       THEN \* if not GMAIL_APP_PASS: sys.exit(1)
            /\ pc' = "exit1"
            /\ smtp_attempted' = FALSE
       ELSE \* SMTP_SSL, login, sendmail: sent, or the exception is re-raised
            /\ smtp_attempted' = TRUE
            /\ pc' \in {"done", "smtp_failed"}
    /\ UNCHANGED <<cred, searchVars, xml_urls, rss_requested, rss_filings, i,
                   docLog, insider_purchases, unique, trades, digest,
                   netVars, parseVars>>

Next ==
    \/ SearchRequest
    \/ ResolveHit
    \/ EndPage
    \/ ReturnXmlUrls
    \/ RssRequest
    \/ ResolveLink
    \/ EndLinks
    \/ ParseDoc
    \/ BuildDigest
    \/ SendEmail

Spec == Init /\ [][Next]_vars

\* --------------------------------------------- parse_form4_xml, alone
InitParse ==
    /\ cred = TRUE
    /\ InitMainVars
    /\ doc \in ParseResponses
    /\ result = <<>>
    /\ returned = FALSE

\* parse_form4_xml(1) on the response doc
Parse ==
    /\ ~returned
    /\ returned' = TRUE
    /\ result' = parse_form4_xml(1, doc)
    /\ UNCHANGED <<pc, cred, searchVars, xml_urls, rss_requested, rss_filings,
                   mainTail, netVars, doc>>

NextParse == Parse

SpecParse == InitParse /\ [][NextParse]_vars


\* ====================================================================
\* Properties
\* ====================================================================
\* The document parse_form4_xml was given has a tree with an issuer name.
HasTree(d) ==
    /\ ~d.exc
    /\ d.status_code = 200
    /\ d.content.syntax \in {"ok", "bad_ns"}
    /\ d.content.issuer_name # ""

\* The line passes the type and direction filter and both its numbers parse.
LineSurvives(t) ==
    /\ t.code = "P"
    /\ t.acq \in {"A", ""}
    /\ t.shares.txt # "bad"
    /\ t.price.txt # "bad"

NumberOf(s) == IF s.txt = "num" THEN s.val ELSE 0
LineValue(t) == NumberOf(t.shares) * NumberOf(t.price)

\* The lines of the document that survive, by position.
Survivors(d) == {k \in DOMAIN d.content.txns : LineSurvives(d.content.txns[k])}

RECURSIVE SumOver(_, _)
SumOver(txns, ks) ==
    IF ks = {} THEN 0
    ELSE LET k == CHOOSE x \in ks : TRUE IN
         LineValue(txns[k]) + SumOver(txns, ks \ {k})

Dates(purchases) == {purchases[n].date : n \in DOMAIN purchases}

\* C1: every record parse_form4_xml returns has
\* total_invested >= MIN_PURCHASE_USD, whatever the document's lines are.
C1_TotalReachesThreshold ==
    returned => \A n \in DOMAIN result :
                   result[n].total_invested >= MIN_PURCHASE_USD

\* A record of two line items, one of them right at the threshold.
C1_Witness ==
    /\ returned
    /\ result # <<>>
    /\ Len(result[1].purchases) = 2
    /\ result[1].purchases[1].total_value = MIN_PURCHASE_USD

\* Every surviving line of the document has positive shares and price.
PlainPurchases(d) ==
    \A k \in Survivors(d) :
       /\ NumberOf(d.content.txns[k].shares) > 0
       /\ NumberOf(d.content.txns[k].price) > 0

\* C2 as claimed: all surviving lines are kept as line items, the aggregate
\* is the sum over the surviving lines, and the document yields a record
\* exactly when that sum reaches the threshold.  Stated for the documents
\* whose surviving lines have positive shares and prices, where nothing
\* but the threshold decides.
C2_ThresholdOnAggregate ==
    (returned /\ HasTree(doc) /\ PlainPurchases(doc)) =>
        LET txns == doc.content.txns
            agg == SumOver(txns, Survivors(doc))
        IN  /\ (result # <<>>) <=> (agg >= MIN_PURCHASE_USD)
            /\ result # <<>> =>
                  /\ Dates(result[1].purchases) = Survivors(doc)
                  /\ result[1].total_invested = agg

\* The surviving lines that reach the threshold on their own.
Sizeable(d) ==
    {k \in Survivors(d) : LineValue(d.content.txns[k]) >= MIN_PURCHASE_USD}

\* C2 amended: the threshold is applied to each surviving line; the line
\* items are the surviving lines that reach it on their own, in document
\* order, the aggregate is the sum over those, and the document yields a
\* record exactly when there is such a line.
C2_ThresholdPerLine ==
    (returned /\ HasTree(doc)) =>
        LET txns == doc.content.txns IN
        /\ (result # <<>>) <=> (Sizeable(doc) # {})
        /\ result # <<>> =>
              LET ps == result[1].purchases IN
              /\ Dates(ps) = Sizeable(doc)
              /\ Len(ps) = Cardinality(Sizeable(doc))
              /\ \A n \in DOMAIN ps :
                    /\ ps[n].shares = NumberOf(txns[ps[n].date].shares)
                    /\ ps[n].price = NumberOf(txns[ps[n].date].price)
                    /\ \A m \in DOMAIN ps : n < m => ps[n].date < ps[m].date
              /\ result[1].total_invested = SumOver(txns, Sizeable(doc))

\* Two surviving lines, each below the threshold, together reaching it: no
\* record.
C2_Witness ==
    /\ returned
    /\ HasTree(doc)
    /\ Cardinality(Survivors(doc)) = 2
    /\ \A k \in Survivors(doc) :
          /\ LineValue(doc.content.txns[k]) > 0
          /\ LineValue(doc.content.txns[k]) < MIN_PURCHASE_USD
    /\ SumOver(doc.content.txns, Survivors(doc)) >= MIN_PURCHASE_USD
    /\ result = <<>>

\* C8 as claimed: every line item of every returned record has a positive
\* share quantity and a non-negative price.
C8_PositiveSharesNonNegativePrice ==
    returned => \A n \in DOMAIN result :
                   \A m \in DOMAIN result[n].purchases :
                      /\ result[n].purchases[m].shares > 0
                      /\ result[n].purchases[m].price >= 0

\* C10: a line is a line item only if its code is "P", its acquired/disposed
\* code is "A" or absent and its numbers parse; a line whose numbers do not
\* parse costs the document none of its other qualifying lines.
C10_OnlyPurchasesAcquired ==
    returned =>
        /\ \A n \in DOMAIN result :
              \A m \in DOMAIN result[n].purchases :
                 LET t == doc.content.txns[result[n].purchases[m].date] IN
                 /\ t.code = "P"
                 /\ t.acq \in {"A", ""}
                 /\ t.shares.txt # "bad" /\ t.price.txt # "bad"
        /\ HasTree(doc) =>
              \A k \in Sizeable(doc) :
                 /\ result # <<>>
                 /\ k \in Dates(result[1].purchases)

\* A sale worth the threshold beside a purchase that is kept.
C10_Witness ==
    /\ returned
    /\ result # <<>>
    /\ Len(doc.content.txns) = 2
    /\ Len(result[1].purchases) = 1
    /\ \E k \in DOMAIN doc.content.txns :
          LET t == doc.content.txns[k] IN
          /\ t.code = "S"
          /\ LineValue(t) >= MIN_PURCHASE_USD


\* ------------------------------------------------------ main's claims
Stopped == {"done", "smtp_failed", "exit1", "search_crashed", "parse_crashed"}
DigestBuilt == pc \in {"deliver", "done", "smtp_failed", "exit1"} /\ i > 0

\* where unique holds the record r
PosIn(ts, r) == CHOOSE k \in DOMAIN ts : ts[k] = r

SameIgnoringCase(a, b) ==
    /\ Upper(a.ticker) = Upper(b.ticker)
    /\ Upper(a.owner_name) = Upper(b.owner_name)

\* the first record of insider_purchases whose key is r's, case ignored
FirstIgnoringCase(r) ==
    insider_purchases[CHOOSE k \in DOMAIN insider_purchases :
        /\ SameIgnoringCase(insider_purchases[k], r)
        /\ \A m \in 1..(k - 1) : ~SameIgnoringCase(insider_purchases[m], r)]

\* C3 as claimed: records whose ticker and insider name are equal when
\* compared case-insensitively collapse to exactly one output record, the
\* first one seen, unchanged.
C3_CaseInsensitiveKey ==
    DigestBuilt =>
        \A a \in DOMAIN insider_purchases :
           LET r == insider_purchases[a] IN
           /\ Cardinality({u \in DOMAIN unique : SameIgnoringCase(unique[u], r)}) = 1
           /\ \E u \in DOMAIN unique : unique[u] = FirstIgnoringCase(r)

\* ticker equal when compared case-insensitively, insider name equal as is
SameKey(a, b) ==
    /\ Upper(a.ticker) = Upper(b.ticker)
    /\ a.owner_name = b.owner_name

\* C3 amended: records whose tickers are equal when compared
\* case-insensitively and whose insider names are equal as written collapse
\* to exactly one output record, the first one seen, unchanged; the output
\* keeps the order of input.
C3_TickerCaseInsensitiveNameExact ==
    DigestBuilt =>
        /\ \A a \in DOMAIN insider_purchases :
              LET r == insider_purchases[a]
                  first == CHOOSE k \in DOMAIN insider_purchases :
                              /\ SameKey(insider_purchases[k], r)
                              /\ \A m \in 1..(k - 1) :
                                    ~SameKey(insider_purchases[m], r)
              IN  /\ Cardinality({u \in DOMAIN unique : SameKey(unique[u], r)}) = 1
                  /\ \E u \in DOMAIN unique : unique[u] = insider_purchases[first]
        /\ \A u, v \in DOMAIN unique :
              u < v => unique[u].filing_url < unique[v].filing_url

\* Two records of one ticker and insider name with different totals, and
\* a third whose insider name differs from theirs in case only: the second
\* is dropped, the third kept.
C3_Witness ==
    /\ DigestBuilt
    /\ Len(unique) = 2
    /\ \E a, b \in DOMAIN insider_purchases :
          /\ a < b
          /\ SameKey(insider_purchases[a], insider_purchases[b])
          /\ insider_purchases[a].total_invested
                # insider_purchases[b].total_invested
          /\ \A u \in DOMAIN unique : unique[u] # insider_purchases[b]
          /\ \E c \in DOMAIN insider_purchases :
                /\ SameIgnoringCase(insider_purchases[c], insider_purchases[a])
                /\ ~SameKey(insider_purchases[c], insider_purchases[a])
                /\ \E u \in DOMAIN unique : unique[u] = insider_purchases[c]

\* C4 as claimed: with the credential absent, no HTTP request precedes the
\* fatal stop.
C4_StopsBeforeAnyRequest ==
    pc = "exit1" => ~requested

\* C4 amended: with the credential absent, the fatal stop is taken inside
\* send_email, after the resolution requests (the first search request at
\* least) and before any SMTP connection; no run without the credential
\* gets as far as the SMTP connection or ends as delivered.
C4_StopsAtDelivery ==
    /\ pc = "exit1" => (~cred /\ requested /\ send_called /\ ~smtp_attempted)
    /\ ~cred => (~smtp_attempted /\ pc \notin {"done", "smtp_failed"})
    /\ (send_called /\ ~cred) => pc = "exit1"

\* The fatal stop after documents were fetched and parsed.
C4_Witness ==
    /\ pc = "exit1"
    /\ i > 0
    /\ digest = "table"

\* C5 as claimed: with the credential present every run that ends has
\* entered send_email, and with no document resolved what it sends is the
\* empty digest.
C5_AlwaysDelivers ==
    /\ (cred /\ pc \in Stopped) => send_called
    /\ (send_called /\ xml_urls = <<>>) => digest = "empty"

\* C6: a document whose fetch or parse fails gives no record and does not
\* stop the loop: no exception leaves it, every document before the loop's
\* position was fetched, and once the loop is over all were.
C6_FailureIsolated ==
    /\ pc # "parse_crashed"
    /\ Len(docLog) = i
    /\ (pc \in {"deliver", "done", "smtp_failed", "exit1"} /\ xml_urls # <<>>)
          => i = Len(xml_urls)
    /\ \A k \in DOMAIN docLog :
          docLog[k] # "parsed" =>
             \A n \in DOMAIN insider_purchases :
                insider_purchases[n].filing_url # xml_urls[k]

\* Three documents: the first fails at the network, the second fails both
\* parses, the third is fetched and gives a record.
C6_Witness ==
    /\ pc = "deliver"
    /\ Len(docLog) = 3
    /\ docLog[1] = "neterr"
    /\ docLog[2] = "unparsable"
    /\ \E n \in DOMAIN insider_purchases : insider_purchases[n].filing_url = 3

\* C7 as claimed: between any two consecutive HTTP requests a REQUEST_DELAY
\* sleep occurs.
C7_DelayBetweenRequests == ~undelayed

\* C9: the digest's records are those of the deduplicated list, ordered by
\* total_invested, descending, records of equal total in the order they
\* have in the deduplicated list.
C9_SortedStable ==
    digest = "table" =>
        /\ Len(trades) = Len(unique)
        /\ \A u \in DOMAIN unique : \E a \in DOMAIN trades : trades[a] = unique[u]
        /\ \A a, b \in DOMAIN trades :
              a < b =>
                 /\ trades[a].total_invested >= trades[b].total_invested
                 /\ trades[a].total_invested = trades[b].total_invested
                       => PosIn(unique, trades[a]) < PosIn(unique, trades[b])

\* Three records: the first two of equal total, the third larger.
C9_Witness ==
    /\ digest = "table"
    /\ Len(unique) = 3
    /\ unique[1].total_invested = unique[2].total_invested
    /\ unique[3].total_invested > unique[1].total_invested
    /\ trades = <<unique[3], unique[1], unique[2]>>

\* C11 as claimed: main requests the RSS fallback if and only if the primary
\* search strategy ended with no resolved document: the fallback is entered
\* with an empty xml_urls only, and once the primary strategy is over, by a
\* return or by a failure, a run that has not requested the fallback holds a
\* document the primary strategy resolved.
C11_FallbackIffPrimaryEmpty ==
    /\ pc = "rss" => xml_urls = <<>>
    /\ (pc \notin {"search", "hits", "search_done", "rss"} /\ ~rss_requested)
          => xml_urls # <<>>

\* C12: fetch_form4_robust issues at most OffsetCap / page_size = 10 page
\* requests whatever the upstream answers; a further request is issued only
\* while offset, page_size times the number of requests made, is below the
\* cap and below the total the last page reported, and only after a page
\* that was fetched, decoded and had hits.
C12_AtMostTenPages ==
    /\ pages * page_size <= OffsetCap
    /\ pc = "search" =>
          /\ offset = pages * page_size
          /\ offset < OffsetCap
          /\ pages > 0 => /\ total_count.type = "int"
                          /\ offset < total_count.val
    /\ pc = "hits" => offset = (pages - 1) * page_size
    /\ pc = "search_done" => offset \in {(pages - 1) * page_size, pages * page_size}

\* The total stays huge on every page: the loop is left by the offset cap
\* after the tenth request.
C12_Witness ==
    /\ pc = "search_done"
    /\ pages * page_size = OffsetCap
    /\ offset = OffsetCap
    /\ total_count.type = "int"
    /\ total_count.val > OffsetCap

=============================================================================
